---- MODULE Spec2Model ----
(***************************************************************************)
(* Model of src/server.js: an express server with one shared puppeteer     *)
(* browser handle, the POST /extract-images handler, GET /health, the      *)
(* SIGINT handler, and the in-page extraction script (four detection       *)
(* methods followed by the duplicate/size filter).                         *)
(*                                                                         *)
(* Two specifications:                                                     *)
(*   Spec        - the server: requests interleave at every await.         *)
(*   SpecExtract - the extraction script alone, over a bounded family of   *)
(*                 documents.                                              *)
(* JavaScript strings are TLA+ strings; Len, SubSeq and \o act on them     *)
(* character by character.                                                 *)
(***************************************************************************)
EXTENDS Integers, Sequences, FiniteSets, TLC

(***************************************************************************)
(* Bounds of the model.                                                    *)
(***************************************************************************)
\* number of POST /extract-images requests the server receives
MaxReq == 2
\* number of elements of a document in SpecExtract
MaxElems == 2

(***************************************************************************)
(* JavaScript string primitives used by the extraction script.             *)
(***************************************************************************)
\* String.prototype.startsWith
StartsWith(s, p) == Len(s) >= Len(p) /\ SubSeq(s, 1, Len(p)) = p

\* String.prototype.includes
Includes(s, p) == \E i \in 1..(Len(s) - Len(p) + 1) : SubSeq(s, i, i + Len(p) - 1) = p

\* the character of s at 1-based position i ("" past the end)
CharAt(s, i) == IF i >= 1 /\ i <= Len(s) THEN SubSeq(s, i, i) ELSE ""

\* String.prototype.split with a one-character separator: a sequence of strings
RECURSIVE Split(_, _)
Split(s, sep) ==
    IF \E i \in 1..Len(s) : CharAt(s, i) = sep
    THEN LET i == CHOOSE k \in 1..Len(s) :
                      /\ CharAt(s, k) = sep
                      /\ \A j \in 1..(k - 1) : CharAt(s, j) # sep
         IN <<SubSeq(s, 1, i - 1)>> \o Split(SubSeq(s, i + 1, Len(s)), sep)
    ELSE <<s>>

\* String.prototype.trim, for the blank character
RECURSIVE Trim(_)
Trim(s) ==
    IF Len(s) > 0 /\ CharAt(s, 1) = " " THEN Trim(SubSeq(s, 2, Len(s)))
    ELSE IF Len(s) > 0 /\ CharAt(s, Len(s)) = " " THEN Trim(SubSeq(s, 1, Len(s) - 1))
    ELSE s

\* a || b on strings: undefined and "" are both falsy and are both written ""
StrOr(a, b) == IF a # "" THEN a ELSE b

\* a || b on numbers: 0 is falsy
NumOr(a, b) == IF a # 0 THEN a ELSE b

\* element.dataset.<k>: the attribute's value, or undefined (falsy, written "")
DataGet(d, k) == IF k \in DOMAIN d THEN d[k] ELSE ""

\* concatenation of a sequence of sequences (the pushes of one forEach, in order)
RECURSIVE Flatten(_)
Flatten(ss) == IF Len(ss) = 0 THEN <<>> ELSE Head(ss) \o Flatten(Tail(ss))

(***************************************************************************)
(* The document the extraction script runs in: a sequence of elements in   *)
(* document order.  An element carries the properties the script reads:    *)
(*   tagName; src (img.src, resolved by the browser; "" when absent);      *)
(*   alt; naturalWidth/naturalHeight/width/height; backgroundImage (the    *)
(*   computed style); inPicture (a child of <picture>); hasSrcset (the     *)
(*   srcset attribute is present); srcset (the srcset property);           *)
(*   dataset (a record of the data-* attributes that are present).         *)
(***************************************************************************)
El(tag, src, alt, nw, nh, w, h, bg, pic, hasSs, ss, ds) ==
    [tagName |-> tag, src |-> src, alt |-> alt,
     naturalWidth |-> nw, naturalHeight |-> nh, width |-> w, height |-> h,
     backgroundImage |-> bg, inPicture |-> pic, hasSrcset |-> hasSs,
     srcset |-> ss, dataset |-> ds]

NoData == [x \in {} |-> ""]

ImgBig     == El("IMG", "http://a", "logo", 100, 100, 100, 100, "none", FALSE, FALSE, "", NoData)
ImgTiny    == El("IMG", "http://a", "", 10, 10, 10, 10, "none", FALSE, FALSE, "", NoData)
ImgLayout  == El("IMG", "https://b", "", 0, 0, 60, 40, "none", FALSE, FALSE, "", NoData)
ImgData    == El("IMG", "data:x", "", 80, 80, 80, 80, "none", FALSE, FALSE, "", NoData)
DivBg      == El("DIV", "", "", 0, 0, 0, 0, "url(\"http://a\")", FALSE, FALSE, "", NoData)
PicImg     == El("IMG", "http://a", "", 100, 100, 100, 100, "none", TRUE, TRUE,
                 "http://a 1x, https://b 2x", NoData)
PicSource  == El("SOURCE", "", "", 0, 0, 0, 0, "none", TRUE, TRUE, "/c 1x, httpx/c 2x", NoData)
DivLazy    == El("DIV", "", "", 0, 0, 0, 0, "none", FALSE, FALSE, "", [src |-> "http://a"])
DivLazyRel == El("DIV", "", "", 0, 0, 0, 0, "none", FALSE, FALSE, "",
                 [src |-> "", original |-> "httpx/c"])
DivPlain   == El("DIV", "", "", 0, 0, 0, 0, "none", FALSE, FALSE, "", NoData)

ElemPool == {ImgBig, ImgTiny, ImgLayout, ImgData, DivBg, PicImg, PicSource,
             DivLazy, DivLazyRel, DivPlain}

\* the documents SpecExtract runs the script on
Documents == UNION {[1..n -> ElemPool] : n \in 0..MaxElems}

(***************************************************************************)
(* The extraction script, server.js 63-151.                                *)
(***************************************************************************)
\* Method 1: standard img tags
Method1(doc) ==
    LET imgElements == SelectSeq(doc, LAMBDA e : e.tagName = "IMG")
    IN Flatten([i \in 1..Len(imgElements) |->
         LET img == imgElements[i] IN
         IF img.src # "" /\ StartsWith(img.src, "http")
         THEN <<[src |-> img.src,
                 alt |-> StrOr(img.alt, "image-" \o ToString(i - 1)),
                 type |-> "img-tag",
                 width |-> NumOr(img.naturalWidth, NumOr(img.width, 0)),
                 height |-> NumOr(img.naturalHeight, NumOr(img.height, 0))]>>
         ELSE <<>>])

Quote(c) == c = "\"" \/ c = "'"

\* bgImage.match(/url\(["']?(.*?)["']?\)/)[1], or "" when there is no match:
\* from the first "url(" that is followed by a ")", skip one optional quote,
\* then capture up to the first ")" or quote-then-")".
UrlMatch(bg) ==
    LET Opens == {i \in 1..Len(bg) :
                    /\ i + 3 <= Len(bg)
                    /\ SubSeq(bg, i, i + 3) = "url("
                    /\ \E k \in (i + 4)..Len(bg) : CharAt(bg, k) = ")"}
    IN IF Opens = {} THEN ""
       ELSE LET i == CHOOSE m \in Opens : \A n \in Opens : m <= n
                Ends(j) == {k \in j..Len(bg) :
                              \/ CharAt(bg, k) = ")"
                              \/ Quote(CharAt(bg, k)) /\ CharAt(bg, k + 1) = ")"}
                j == IF Quote(CharAt(bg, i + 4)) /\ Ends(i + 5) # {}
                     THEN i + 5 ELSE i + 4
                k == CHOOSE m \in Ends(j) : \A n \in Ends(j) : m <= n
            IN SubSeq(bg, j, k - 1)

\* Method 2: background images
Method2(doc) ==
    Flatten([i \in 1..Len(doc) |->
      LET element == doc[i]
          bgImage == element.backgroundImage
      IN IF bgImage # "" /\ bgImage # "none" /\ Includes(bgImage, "url(")
            /\ UrlMatch(bgImage) # "" /\ StartsWith(UrlMatch(bgImage), "http")
         THEN <<[src |-> UrlMatch(bgImage),
                 alt |-> "background-" \o ToString(i - 1),
                 type |-> "background-image",
                 element |-> element.tagName,
                 width |-> 0, height |-> 0]>>
         ELSE <<>>])

\* srcset.split(',').map(s => s.trim().split(' ')[0]).filter(url => url.startsWith('http'))
HttpUrls(srcset) ==
    LET parts == Split(srcset, ",")
        urls == [i \in 1..Len(parts) |-> Split(Trim(parts[i]), " ")[1]]
    IN SelectSeq(urls, LAMBDA u : StartsWith(u, "http"))

\* Method 3: picture elements and srcset
Method3(doc) ==
    LET pictureElements ==
          SelectSeq(doc, LAMBDA e : \/ e.inPicture /\ e.tagName \in {"SOURCE", "IMG"}
                                    \/ e.hasSrcset)
    IN Flatten([i \in 1..Len(pictureElements) |->
         LET element == pictureElements[i]
             srcset == StrOr(element.srcset, element.src)
         IN IF srcset # "" /\ Includes(srcset, "http") /\ Len(HttpUrls(srcset)) > 0
            THEN <<[src |-> HttpUrls(srcset)[Len(HttpUrls(srcset))],
                    alt |-> "picture-" \o ToString(i - 1),
                    type |-> "picture-element",
                    width |-> 0, height |-> 0]>>
            ELSE <<>>])

LazyKeys == {"src", "lazySrc", "original", "image", "bg"}

\* Method 4: data attributes (lazy loading)
Method4(doc) ==
    LET lazyImages == SelectSeq(doc, LAMBDA e : DOMAIN e.dataset \cap LazyKeys # {})
    IN Flatten([i \in 1..Len(lazyImages) |->
         LET d == lazyImages[i].dataset
             src == StrOr(DataGet(d, "src"),
                    StrOr(DataGet(d, "lazySrc"),
                    StrOr(DataGet(d, "original"),
                    StrOr(DataGet(d, "image"), DataGet(d, "bg")))))
         IN IF src # "" /\ StartsWith(src, "http")
            THEN <<[src |-> src,
                    alt |-> "lazy-" \o ToString(i - 1),
                    type |-> "lazy-loading",
                    width |-> 0, height |-> 0]>>
            ELSE <<>>])

\* self.findIndex(i => i.src === img.src), 1-based (0 when absent)
FindIndex(self, src) ==
    IF \E k \in 1..Len(self) : self[k].src = src
    THEN CHOOSE k \in 1..Len(self) :
           /\ self[k].src = src
           /\ \A j \in 1..(k - 1) : self[j].src # src
    ELSE 0

MinSize == 50

\* variant: no candidate is ever taken for a duplicate
IsDuplicateNever(self, index) == FALSE

IsDuplicate(self, index) == index # FindIndex(self, self[index].src)

\* variant: too small only when both dimensions are under the minimum
IsTooSmallBoth(img) ==
    (img.width > 0 /\ img.height > 0) /\ (img.width < MinSize /\ img.height < MinSize)

IsTooSmall(img) ==
    (img.width > 0 /\ img.height > 0) /\ (img.width < MinSize \/ img.height < MinSize)

\* images.filter(...): remove duplicates and filter out tiny images
UniqueImages(self) ==
    Flatten([index \in 1..Len(self) |->
      IF ~IsDuplicate(self, index) /\ ~IsTooSmall(self[index])
      THEN <<self[index]>> ELSE <<>>])

\* the whole script: what page.evaluate returns for a document
ExtractImages(doc) ==
    UniqueImages(Method1(doc) \o Method2(doc) \o Method3(doc) \o Method4(doc))

(***************************************************************************)
(* The server's environment: request bodies and the sites they name.       *)
(***************************************************************************)
NoBody == [x \in {} |-> ""]

Bodies == {NoBody, [url |-> ""], [url |-> "http://site.test"]}

\* const { url } = req.body   (undefined is falsy and is written "")
BodyUrl(b) == IF "url" \in DOMAIN b THEN b.url ELSE ""

\* the documents a reachable site may have rendered when the script runs
Pages == {<<DivPlain>>, <<ImgBig, ImgLayout, PicImg, DivLazy, DivLazyRel>>}

\* what page.evaluate(script) returns on each of these documents
Evaluate == [doc \in Pages |-> ExtractImages(doc)]

Null == 0
Req == 1..MaxReq

\* the messages of the errors an awaited puppeteer call can reject with
Errors(step, u) ==
    CASE step = "launch"  -> {"Failed to launch the browser process"}
      [] step = "newPage" -> {"Protocol error (Target.createTarget): Target closed"}
      [] step = "goto"    -> {"net::ERR_NAME_NOT_RESOLVED at " \o u,
                              "Navigation timeout of 30000 ms exceeded"}
      [] step = "scroll"  -> {"Execution context was destroyed"}
      [] step = "evaluate" -> {"Evaluation failed"}
      [] OTHER            -> {"Protocol error: Session closed"}

VARIABLES
    browser,      \* let browser: Null or the handle the last resolved launch stored
    chrome,       \* per launch: "none", "launching", "open", "failed", "closed"
    launches,     \* number of calls of puppeteer.launch
    pc,           \* per request: the await the handler is suspended at
    body,         \* per request: req.body
    local,        \* per request: const browser = await initBrowser()
    page,         \* per request: its page, "none", "open" or "closed"
    dom,          \* per request: the document its page held when the script ran
    imageData,    \* per request: what page.evaluate returned
    res,          \* per request: the responses sent, in order
    thrown,       \* per request: the messages of the errors its awaited calls threw
    proc,         \* the process: "running", "closing" (SIGINT awaits close), "exited"
    closing,      \* the handle the SIGINT handler called close() on
    health,       \* the last body GET /health answered with
    document,     \* SpecExtract: the document the script runs in
    images,       \* SpecExtract: const images
    uniqueImages, \* SpecExtract: const uniqueImages
    evalStep      \* SpecExtract: position in the script

serverVars == <<browser, chrome, launches, pc, body, local, page, dom, imageData,
                res, thrown, proc, closing, health>>
extractVars == <<document, images, uniqueImages, evalStep>>
vars == <<serverVars, extractVars>>

ServerInit ==
    /\ browser = Null
    /\ chrome = [b \in Req |-> "none"]
    /\ launches = 0
    /\ pc = [r \in Req |-> "idle"]
    /\ body = [r \in Req |-> NoBody]
    /\ local = [r \in Req |-> Null]
    /\ page = [r \in Req |-> "none"]
    /\ dom = [r \in Req |-> <<>>]
    /\ imageData = [r \in Req |-> <<>>]
    /\ res = [r \in Req |-> <<>>]
    /\ thrown = [r \in Req |-> <<>>]
    /\ proc = "running"
    /\ closing = Null
    /\ health = <<>>

Init ==
    /\ ServerInit
    /\ document = <<>>
    /\ images = <<>>
    /\ uniqueImages = <<>>
    /\ evalStep = "off"

(***************************************************************************)
(* Responses.                                                              *)
(***************************************************************************)
BadRequest == [status |-> 400, body |-> [error |-> "URL is required"]]

ServerError(message) ==
    [status |-> 500, body |-> [error |-> "Failed to extract images", message |-> message]]

\* variant: count is one short of the list
SuccessOffByOne(data, url) ==
    [status |-> 200,
     body |-> [success |-> TRUE, images |-> data, count |-> Len(data) - 1, url |-> url]]

Success(data, url) ==
    [status |-> 200,
     body |-> [success |-> TRUE, images |-> data, count |-> Len(data), url |-> url]]

\* the body GET /health answers with in the current state
HealthBody == [status |-> "OK", browser |-> browser # Null]

(***************************************************************************)
(* POST /extract-images, server.js 34-171.  pc[r] names the call whose      *)
(* promise the handler of request r awaits; each action below is one        *)
(* resumption of the handler, up to its next await.                         *)
(***************************************************************************)
Running == proc # "exited"

Url(r) == BodyUrl(body[r])

\* initBrowser() called by request r: launch when the handle is null, else
\* return the handle.  A returned handle resumes the handler in the same turn
\* of the event loop (the await of a settled promise yields to microtasks
\* only), so browser.newPage() is called at once.
InitBrowser(r) ==
    IF browser = Null
    THEN /\ launches' = launches + 1
         /\ chrome' = [chrome EXCEPT ![r] = "launching"]
         /\ pc' = [pc EXCEPT ![r] = "launch"]
         /\ local' = local
    ELSE /\ local' = [local EXCEPT ![r] = browser]
         /\ pc' = [pc EXCEPT ![r] = "newPage"]
         /\ UNCHANGED <<launches, chrome>>

\* variant: the browser is obtained before the url is looked at
PostBrowserFirst(r, b) ==
    /\ Running
    /\ pc[r] = "idle"
    /\ r > 1 => pc[r - 1] # "idle"
    /\ body' = [body EXCEPT ![r] = b]
    /\ InitBrowser(r)
    /\ res' = res
    /\ UNCHANGED <<browser, page, dom, imageData, thrown, proc, closing, health,
                   extractVars>>

\* the request arrives and the handler runs to its first await (or to its 400);
\* requests are numbered in the order they arrive
Post(r, b) ==
    /\ Running
    /\ pc[r] = "idle"
    /\ r > 1 => pc[r - 1] # "idle"
    /\ body' = [body EXCEPT ![r] = b]
    /\ IF BodyUrl(b) = ""
       THEN /\ res' = [res EXCEPT ![r] = Append(@, BadRequest)]
            /\ pc' = [pc EXCEPT ![r] = "done"]
            /\ UNCHANGED <<launches, chrome, local>>
       ELSE /\ InitBrowser(r)
            /\ res' = res
    /\ UNCHANGED <<browser, page, dom, imageData, thrown, proc, closing, health,
                   extractVars>>

\* variant: the launched browser is returned but not stored in the shared handle
LaunchOkNotStored(r) ==
    /\ Running
    /\ pc[r] = "launch"
    /\ chrome' = [chrome EXCEPT ![r] = "open"]
    /\ local' = [local EXCEPT ![r] = r]
    /\ pc' = [pc EXCEPT ![r] = "newPage"]
    /\ UNCHANGED <<browser, launches, body, page, dom, imageData, res, thrown, proc,
                   closing, health, extractVars>>

\* puppeteer.launch resolves: initBrowser stores the handle and returns it;
\* the handler calls browser.newPage()
LaunchOk(r) ==
    /\ Running
    /\ pc[r] = "launch"
    /\ chrome' = [chrome EXCEPT ![r] = "open"]
    /\ browser' = r
    /\ local' = [local EXCEPT ![r] = r]
    /\ pc' = [pc EXCEPT ![r] = "newPage"]
    /\ UNCHANGED <<launches, body, page, dom, imageData, res, thrown, proc, closing,
                   health, extractVars>>

\* browser.newPage() resolves: the page exists; page.setUserAgent is called
NewPageOk(r) ==
    /\ Running
    /\ pc[r] = "newPage"
    /\ chrome[local[r]] = "open"
    /\ page' = [page EXCEPT ![r] = "open"]
    /\ pc' = [pc EXCEPT ![r] = "setUserAgent"]
    /\ UNCHANGED <<browser, chrome, launches, body, local, dom, imageData, res, thrown,
                   proc, closing, health, extractVars>>

\* the handler moves from one awaited page call to the next
Advance(r, from, to) ==
    /\ Running
    /\ pc[r] = from
    /\ pc' = [pc EXCEPT ![r] = to]
    /\ UNCHANGED <<browser, chrome, launches, body, local, page, dom, imageData, res,
                   thrown, proc, closing, health, extractVars>>

SetUserAgentOk(r) == Advance(r, "setUserAgent", "goto")

GotoOk(r) == Advance(r, "goto", "waitForTimeout")

\* the 3 s wait ends; scrollPageToLoadImages(page) is called
WaitOk(r) == Advance(r, "waitForTimeout", "scroll")

\* scrollPageToLoadImages resolves (every evaluate and wait in it resolved, the
\* page is back at the top); page.evaluate(script) is called
ScrollOk(r) == Advance(r, "scroll", "evaluate")

\* page.evaluate resolves with the script's result; page.close() is called
EvaluateOk(r, doc) ==
    /\ Running
    /\ pc[r] = "evaluate"
    /\ dom' = [dom EXCEPT ![r] = doc]
    /\ imageData' = [imageData EXCEPT ![r] = Evaluate[doc]]
    /\ pc' = [pc EXCEPT ![r] = "close"]
    /\ UNCHANGED <<browser, chrome, launches, body, local, page, res, thrown,
                   proc, closing, health, extractVars>>

\* page.close() resolves; the 200 response is sent
CloseOk(r) ==
    /\ Running
    /\ pc[r] = "close"
    /\ page' = [page EXCEPT ![r] = "closed"]
    /\ res' = [res EXCEPT ![r] = Append(@, Success(imageData[r], Url(r)))]
    /\ pc' = [pc EXCEPT ![r] = "done"]
    /\ UNCHANGED <<browser, chrome, launches, body, local, dom, imageData, thrown,
                   proc, closing, health, extractVars>>

\* variant: the 500 response carries a fixed message
CatchFixedMessage(r, message) ==
    /\ res' = [res EXCEPT ![r] = Append(@, ServerError("Internal Server Error"))]
    /\ pc' = [pc EXCEPT ![r] = "done"]

\* catch (error): the 500 response with the caught message
Catch(r, message) ==
    /\ res' = [res EXCEPT ![r] = Append(@, ServerError(message))]
    /\ pc' = [pc EXCEPT ![r] = "done"]

\* the awaited call rejects: control passes to the catch block
Fail(r) ==
    /\ Running
    /\ pc[r] \notin {"idle", "done"}
    /\ \E message \in Errors(pc[r], Url(r)) :
         /\ thrown' = [thrown EXCEPT ![r] = Append(@, message)]
         /\ Catch(r, message)
    /\ chrome' = IF pc[r] = "launch" THEN [chrome EXCEPT ![r] = "failed"] ELSE chrome
    /\ UNCHANGED <<browser, launches, body, local, page, dom, imageData, proc, closing,
                   health, extractVars>>

(***************************************************************************)
(* GET /health, server.js 191-193.                                         *)
(***************************************************************************)
Health ==
    /\ Running
    /\ health' = <<HealthBody>>
    /\ UNCHANGED <<browser, chrome, launches, pc, body, local, page, dom, imageData,
                   res, thrown, proc, closing, extractVars>>

(***************************************************************************)
(* process.on('SIGINT'), server.js 207-213.                                *)
(***************************************************************************)
\* the handler runs: with a handle it awaits browser.close(), without one it
\* exits.  (A further SIGINT during the await runs the same code and changes
\* nothing: the first close to resolve exits the process.)
Sigint ==
    /\ proc = "running"
    /\ IF browser # Null
       THEN proc' = "closing" /\ closing' = browser
       ELSE proc' = "exited" /\ closing' = closing
    /\ UNCHANGED <<browser, chrome, launches, pc, body, local, page, dom, imageData,
                   res, thrown, health, extractVars>>

\* browser.close() resolves (the browser and its pages are gone); process.exit(0)
SigintExit ==
    /\ proc = "closing"
    /\ chrome' = [chrome EXCEPT ![closing] = "closed"]
    /\ page' = [r \in Req |-> IF local[r] = closing /\ page[r] = "open"
                              THEN "closed" ELSE page[r]]
    /\ proc' = "exited"
    /\ UNCHANGED <<browser, launches, pc, body, local, dom, imageData, res, thrown,
                   closing, health, extractVars>>

Next ==
    \/ \E r \in Req, b \in Bodies : Post(r, b)
    \/ \E r \in Req : LaunchOk(r)
    \/ \E r \in Req : NewPageOk(r)
    \/ \E r \in Req : SetUserAgentOk(r)
    \/ \E r \in Req : GotoOk(r)
    \/ \E r \in Req : WaitOk(r)
    \/ \E r \in Req : ScrollOk(r)
    \/ \E r \in Req, doc \in Pages : EvaluateOk(r, doc)
    \/ \E r \in Req : CloseOk(r)
    \/ \E r \in Req : Fail(r)
    \/ Health
    \/ Sigint
    \/ SigintExit

Spec == Init /\ [][Next]_vars

(***************************************************************************)
(* SpecExtract: the extraction script run on every document of Documents,  *)
(* one detection method per step, then the filter.                         *)
(***************************************************************************)
ExtractInit ==
    /\ ServerInit
    /\ document \in Documents
    /\ images = <<>>
    /\ uniqueImages = <<>>
    /\ evalStep = "method1"

Collect(at, found, to) ==
    /\ evalStep = at
    /\ images' = images \o found
    /\ evalStep' = to
    /\ UNCHANGED <<document, uniqueImages, serverVars>>

RunMethod1 == Collect("method1", Method1(document), "method2")
RunMethod2 == Collect("method2", Method2(document), "method3")
RunMethod3 == Collect("method3", Method3(document), "method4")
RunMethod4 == Collect("method4", Method4(document), "filter")

RunFilter ==
    /\ evalStep = "filter"
    /\ uniqueImages' = UniqueImages(images)
    /\ evalStep' = "done"
    /\ UNCHANGED <<document, images, serverVars>>

ExtractNext == RunMethod1 \/ RunMethod2 \/ RunMethod3 \/ RunMethod4 \/ RunFilter

SpecExtract == ExtractInit /\ [][ExtractNext]_vars

(***************************************************************************)
(* Properties of the server (Spec).                                        *)
(***************************************************************************)
Responded(r) == Len(res[r]) > 0

\* C1: once a request's response has been sent, no page opened by that
\* request remains open, whatever the outcome.
C1_PageClosedAfterResponse ==
    \A r \in Req : Responded(r) => page[r] # "open"

\* C2: puppeteer.launch is invoked at most once, and every request obtains
\* the same browser handle from initBrowser.
C2_SingleLaunch ==
    /\ launches <= 1
    /\ \A r1, r2 \in Req :
         (local[r1] # Null /\ local[r2] # Null) => local[r1] = local[r2]

\* C3 as stated: /health answers browser: false before any POST has been
\* received, and browser: true after any POST has been handled, whatever its
\* body or outcome.
C3_HealthAfterAnyRequest ==
    Running =>
      /\ (\A r \in Req : pc[r] = "idle") => HealthBody.browser = FALSE
      /\ (\E r \in Req : Responded(r)) => HealthBody.browser = TRUE

\* C3 amended: /health answers browser: false before any POST has been
\* received, and browser: true after a POST for which initBrowser returned a
\* browser handle has been handled.
C3_HealthAfterBrowserObtained ==
    Running =>
      /\ (\A r \in Req : pc[r] = "idle") => HealthBody.browser = FALSE
      /\ (\E r \in Req : Responded(r) /\ local[r] # Null) => HealthBody.browser = TRUE

\* a request answered 500 after it obtained the browser, and /health then
\* answered browser: true
C3_Witness ==
    /\ \E r \in Req : Responded(r) /\ local[r] # Null /\ res[r][1].status = 500
    /\ health = <<[status |-> "OK", browser |-> TRUE]>>

\* C6: a POST whose body has no url (or a falsy one) is answered 400 with an
\* error body, in every state, and handling it launches no browser, opens no
\* page and leaves the shared handle alone.
C6_MissingUrlIs400 ==
    [][\A r \in Req :
         (pc[r] = "idle" /\ pc'[r] # "idle" /\ BodyUrl(body'[r]) = "") =>
           /\ Len(res'[r]) = 1
           /\ res'[r][1].status = 400
           /\ "error" \in DOMAIN res'[r][1].body
           /\ pc'[r] = "done"
           /\ launches' = launches
           /\ chrome' = chrome
           /\ page' = page
           /\ browser' = browser
           /\ local'[r] = Null]_vars

\* a url-less request answered 400 while the browser is up and another
\* request is in flight
C6_Witness ==
    \E r, q \in Req :
      /\ BodyUrl(body[r]) = "" /\ pc[r] = "done"
      /\ res[r] = <<[status |-> 400, body |-> [error |-> "URL is required"]]>>
      /\ browser # Null /\ pc[q] = "goto"

\* C7: a failure of any awaited call of a request with a url yields exactly
\* one response, a 500 whose message is the thrown error's message; no 200 is
\* sent and the handler does not go on.
C7_FailureIs500 ==
    \A r \in Req :
      Len(thrown[r]) > 0 =>
        /\ Len(thrown[r]) = 1
        /\ pc[r] = "done"
        /\ Len(res[r]) = 1
        /\ res[r][1].status = 500
        /\ res[r][1].body.message = thrown[r][1]

\* one request failed in the launch, another in the navigation
C7_Witness ==
    \E r, q \in Req :
      /\ thrown[r] = <<"Failed to launch the browser process">>
      /\ thrown[q] = <<"net::ERR_NAME_NOT_RESOLVED at http://site.test">>
      /\ res[q][1].status = 500

\* C8: when the process has exited after an interrupt, no browser it launched
\* remains unclosed, a launch still pending at the interrupt included.
C8_BrowserClosedAtExit ==
    proc = "exited" => \A b \in Req : chrome[b] \notin {"launching", "open"}

AbsoluteHttp(u) == StartsWith(u, "http://") \/ StartsWith(u, "https://")

\* C9: every entry of the images list of a success response has a src that
\* begins with http:// or https://.
C9_AbsoluteHttpSrc ==
    \A r \in Req : \A k \in 1..Len(res[r]) :
      res[r][k].status = 200 =>
        \A i \in 1..Len(res[r][k].body.images) :
          AbsoluteHttp(res[r][k].body.images[i].src)

Candidates(doc) == Method1(doc) \o Method2(doc) \o Method3(doc) \o Method4(doc)

\* the pages on which no detection method finds a candidate
NoCandidatePages == {doc \in Pages : Len(Candidates(doc)) = 0}

\* C10: in every success response count is the number of entries of images
\* and url is the requested url; a page with no candidate yields count 0 and
\* images [].
C10_CountAndUrl ==
    \A r \in Req : \A k \in 1..Len(res[r]) :
      res[r][k].status = 200 =>
        /\ res[r][k].body.count = Len(res[r][k].body.images)
        /\ res[r][k].body.url = body[r].url
        /\ dom[r] \in NoCandidatePages =>
             res[r][k].body.count = 0 /\ res[r][k].body.images = <<>>

\* a success on a page without candidates and one on a page with some
C10_Witness ==
    \E r, q \in Req :
      /\ Responded(r) /\ res[r][1].status = 200 /\ res[r][1].body.count = 0
      /\ dom[r] \in NoCandidatePages
      /\ Responded(q) /\ res[q][1].status = 200 /\ res[q][1].body.count > 0

(***************************************************************************)
(* Properties of the extraction script (SpecExtract).                      *)
(***************************************************************************)
\* the positions of seq whose entry has source src
Occurrences(seq, src) == {i \in 1..Len(seq) : seq[i].src = src}

\* src is a candidate of more than one detection method
AcrossMethods(src) == Cardinality({images[i].type : i \in Occurrences(images, src)}) > 1

\* C4 as stated: a src found by more than one method has exactly one entry in
\* the returned list.
C4_ExactlyOneEntry ==
    evalStep = "done" =>
      \A i \in 1..Len(images) :
        AcrossMethods(images[i].src) =>
          Cardinality(Occurrences(uniqueImages, images[i].src)) = 1

\* C4 amended: a src found by more than one method has at most one entry in
\* the returned list: exactly one when the first candidate with that src has
\* no known size under 50 in either dimension, none otherwise.
C4_AtMostOneEntry ==
    evalStep = "done" =>
      \A i \in 1..Len(images) :
        AcrossMethods(images[i].src) =>
          LET first == images[CHOOSE k \in Occurrences(images, images[i].src) :
                             \A j \in Occurrences(images, images[i].src) : k <= j]
              tiny == first.width > 0 /\ first.height > 0
                      /\ (first.width < 50 \/ first.height < 50)
              n == Cardinality(Occurrences(uniqueImages, images[i].src))
          IN n = (IF tiny THEN 0 ELSE 1)

\* the same src from an img tag and from a data-src attribute, one entry kept
C4_Witness ==
    /\ evalStep = "done"
    /\ document = <<ImgBig, DivLazy>>
    /\ Len(images) = 2
    /\ Len(uniqueImages) = 1

\* C5: no entry of the returned list has a known width and height with one of
\* them under 50.
C5_NoTinyImage ==
    evalStep = "done" =>
      \A i \in 1..Len(uniqueImages) :
        ~ (/\ uniqueImages[i].width > 0 /\ uniqueImages[i].height > 0
           /\ (uniqueImages[i].width < 50 \/ uniqueImages[i].height < 50))

\* a 60x40 img tag among the candidates, dropped, next to a kept candidate
C5_Witness ==
    /\ evalStep = "done"
    /\ \E i \in 1..Len(images) : images[i].width = 60 /\ images[i].height = 40
    /\ Len(uniqueImages) = 1
    /\ Len(images) = 2

====
